---- MODULE Spec2Model ----
(***************************************************************************)
(* HeliumJS: the client connection manager (src/src/client/rpcClient.ts),  *)
(* the server request dispatcher (RpcRegistry, src/unnamed/part_008) and   *)
(* the worker supervisor (src/unnamed/part_001).                           *)
(*                                                                         *)
(* SpecClient   the browser side: one module-level socket reference, one   *)
(*              connection promise, the pending table, and the socket      *)
(*              events delivered by the event loop.                        *)
(* SpecDispatch the server side: RpcRegistry.handleMessage, one async      *)
(*              invocation per inbound frame, interleaved at its awaits.   *)
(* SpecWorker   the supervisor: startWorker and the run loop it starts,    *)
(*              interleaved at the loop's awaits with the stop calls.      *)
(* SpecWorkerThrows   SpecWorker with failures whose thrown value cannot  *)
(*              be converted to a string as well.                          *)
(* SpecWorkerQueries  SpecWorker with callers of the status queries that   *)
(*              use the values they are returned.                          *)
(* SpecFetch    the TTL refetch effect of the useFetch hook                *)
(*              (src/unnamed/part_002) of one mounted component.           *)
(***************************************************************************)
EXTENDS Integers, Sequences, FiniteSets, TLC

\* ---------------------------------------------------------------- bounds
MaxSockets == 2      \* WebSocket objects the client may create in a run
MaxCalls == 2        \* rpcCall invocations in a run
NumIds == 2          \* distinct strings uuid() can produce in a run
MaxReqs == 2         \* frames the dispatcher receives in a run
MaxInstances == 2    \* WorkerInstance objects startWorker may create in a run
MaxEffects == 3      \* runs of the TTL effect of useFetch in a run
MaxRefetches == 3    \* TTL refetch requests issued in a run
MaxRuns == 3         \* run attempts of all worker instances together in a run

Null == 0
Callers == 1..MaxCalls
SocketIds == 1..MaxSockets
PromiseIds == 1..(MaxSockets + MaxCalls)
Ids == 1..NumIds

\* what a response may carry: a success with its result and stats, a failure
\* with its error and stats
Payloads == {[ok |-> TRUE, body |-> "x", stats |-> "s1"], [ok |-> FALSE, body |-> "y", stats |-> "s2"]}
Encodings == {"json", "msgpack", "none"}   \* window.HELIUM_RPC_ENCODING

VARIABLES
    \* ---- client (rpcClient.ts)
    encoding,           \* window.HELIUM_RPC_ENCODING ("none": not advertised)
    socket,             \* let socket: WebSocket | null
    connectionPromise,  \* let connectionPromise: Promise<WebSocket> | null
    pending,            \* const pending = new Map<id, {resolve, reject}>
    readyState,         \* readyState of every WebSocket object created
    listeners,          \* per socket: promises whose handleOpen/handleError/handleClose are attached
    promise,            \* every promise created by ensureSocketReady
    nSockets,           \* WebSocket objects created so far
    nPromises,          \* promises created so far
    call,               \* every rpcCall invocation: where it is and how it ended
    events,             \* per socket: the events dispatched on it so far
    sendSeq,            \* callers in the order their frames were handed to ws.send
    settleSeq,          \* callers in the order a response settled them
    \* ---- dispatcher (RpcRegistry)
    methods,            \* private methods = new Map<string, HeliumMethodDef>
    middleware,         \* private middleware: HeliumMiddleware | null
    rq,                 \* every handleMessage invocation: its frame, locals and position
    sent,               \* per invocation: the frames it handed to socket.send
    \* ---- worker supervisor (src/unnamed/part_001)
    runningWorkers,     \* const runningWorkers = new Map<name, {abortController, promise, instance}>
    inst,               \* every WorkerInstance created, with its abort signal and its run loop
    nInst,              \* WorkerInstance objects created so far
    ret,                \* the supervisor call made in the last step and what it returned
    \* ---- useFetch (src/unnamed/part_002), the TTL refetch effect of one component
    fx,                 \* every run of the effect: its dependencies, its timeoutId, its request
    nFx                 \* runs of the effect so far

clientVars == <<encoding, socket, connectionPromise, pending, readyState, listeners,
                promise, nSockets, nPromises, call, events, sendSeq, settleSeq>>

dispatchVars == <<methods, middleware, rq, sent>>

workerVars == <<runningWorkers, inst, nInst, ret>>

fetchVars == <<fx, nFx>>

vars == <<clientVars, dispatchVars, workerVars, fetchVars>>

\* ------------------------------------------------------------ wire codec
\* An inbound frame: a WebSocket message is binary (ArrayBuffer) or text, and its
\* bytes are MessagePack, JSON text, or neither.
Messages == {[id |-> i, ok |-> p.ok, body |-> p.body, stats |-> p.stats] :
                i \in Ids, p \in Payloads}
Frames == [kind : {"binary", "text"}, fmt : {"msgpack", "json", "garbage"}, msg : Messages]

ClientEncoding == IF encoding = "none" THEN "msgpack" ELSE encoding

\* msgpackDecode of a byte buffer: succeeds on MessagePack bytes only
MsgpackDecodes(f) == f.fmt = "msgpack"
\* JSON.parse of a text frame: succeeds on JSON text only
JsonParses(f) == f.fmt = "json"

\* The decode of ws.onmessage: TRUE when a message object is obtained, FALSE when
\* the handler throws.  new Uint8Array(<string>) is an empty buffer, so the
\* MessagePack fallback on a text frame always throws.
DecodeFrame(f) ==
    IF f.kind = "binary" THEN MsgpackDecodes(f)
    ELSE IF ClientEncoding = "json" THEN JsonParses(f)
    ELSE IF JsonParses(f) THEN TRUE
    ELSE FALSE

\* --------------------------------------------------------------- promises
NoPromise == [state |-> "none", sock |-> Null, value |-> Null, error |-> ""]

\* resolve()/reject() of a promise: only the first settlement counts
Resolve(pr, ws) == IF pr.state = "pending" THEN [pr EXCEPT !.state = "resolved", !.value = ws] ELSE pr
Reject(pr, msg) == IF pr.state = "pending" THEN [pr EXCEPT !.state = "rejected", !.error = msg] ELSE pr

\* The mutable module state the socket listeners touch
ConnState == [socket |-> socket, connectionPromise |-> connectionPromise,
              listeners |-> listeners, promise |-> promise]

\* cleanup(): removes the three listeners from the socket the module variable
\* refers to now
Cleanup(p, st) == [st EXCEPT !.listeners[st.socket] = @ \ {p}]

HandleOpenKeepsPromise(p, st) ==
    IF st.socket = Null THEN st
    ELSE [Cleanup(p, st) EXCEPT !.promise[p] = Resolve(@, st.socket)]

\* handleOpen of promise p.  cleanup() dereferences the module variable: when it
\* is null the listener throws a TypeError and nothing else of it runs.
HandleOpen(p, st) ==
    IF st.socket = Null THEN st
    ELSE [Cleanup(p, st) EXCEPT !.connectionPromise = Null,
                                !.promise[p] = Resolve(@, st.socket)]

HandleErrorNoReject(p, st) ==
    IF st.socket = Null THEN st
    ELSE [Cleanup(p, st) EXCEPT !.socket = Null, !.connectionPromise = Null]

\* handleError of promise p
HandleError(p, st) ==
    IF st.socket = Null THEN st
    ELSE [Cleanup(p, st) EXCEPT !.socket = Null, !.connectionPromise = Null,
                                !.promise[p] = Reject(@, "WebSocket connection failed")]

\* handleClose of promise p
HandleClose(p, st) ==
    IF st.socket = Null THEN st
    ELSE [Cleanup(p, st) EXCEPT !.socket = Null, !.connectionPromise = Null,
                                !.promise[p] = Reject(@, "WebSocket closed before opening")]

OnCloseKeepsReference(ws, st) == st

OnCloseOfAnySocket(ws, st) == [st EXCEPT !.socket = Null, !.connectionPromise = Null]

\* ws.onclose, set in createSocket
OnClose(ws, st) ==
    IF st.socket = ws THEN [st EXCEPT !.socket = Null, !.connectionPromise = Null]
    ELSE st

Handle(kind, p, st) ==
    CASE kind = "open" -> HandleOpen(p, st)
      [] kind = "error" -> HandleError(p, st)
      [] kind = "close" -> HandleClose(p, st)

\* Event dispatch on ws: the listeners attached when the event fired run in the
\* order they were added; one removed meanwhile is skipped.
RECURSIVE RunListeners(_, _, _, _)
RunListeners(kind, ws, todo, st) ==
    IF todo = {} THEN st
    ELSE LET p == CHOOSE q \in todo : \A r \in todo : q <= r
         IN RunListeners(kind, ws, todo \ {p},
                         IF p \in st.listeners[ws] THEN Handle(kind, p, st) ELSE st)

SetConnState(st) ==
    /\ socket' = st.socket
    /\ connectionPromise' = st.connectionPromise
    /\ listeners' = st.listeners
    /\ promise' = st.promise

\* ----------------------------------------------------------------- calls
NoOutcome == [kind |-> "none", body |-> "", stats |-> "", error |-> ""]
IdleCall == [pc |-> "idle", awaits |-> Null, ws |-> Null, id |-> Null, outcome |-> NoOutcome]

\* A continuation that the microtask queue will run before the next event
Runnable(c) ==
    \/ call[c].pc = "ready"
    \/ call[c].pc = "awaiting" /\ promise[call[c].awaits].state # "pending"

MicrotasksDrained == \A c \in Callers : ~Runnable(c)

ClientIdle ==
    /\ socket = Null
    /\ connectionPromise = Null
    /\ pending = << >>
    /\ readyState = [s \in SocketIds |-> "NONE"]
    /\ listeners = [s \in SocketIds |-> {}]
    /\ promise = [p \in PromiseIds |-> NoPromise]
    /\ nSockets = 0
    /\ nPromises = 0
    /\ call = [c \in Callers |-> IdleCall]
    /\ events = [s \in SocketIds |-> << >>]
    /\ sendSeq = << >>
    /\ settleSeq = << >>

ClientInit == encoding \in Encodings /\ ClientIdle

\* new Promise(...) in ensureSocketReady: the executor attaches the three
\* listeners to the socket the module variable refers to
NewPromiseOn(ws, p) ==
    /\ promise' = [promise EXCEPT ![p] = [NoPromise EXCEPT !.state = "pending", !.sock = ws]]
    /\ listeners' = [listeners EXCEPT ![ws] = @ \cup {p}]
    /\ connectionPromise' = p
    /\ nPromises' = p

EnsureSocketReadyNoReuse(c) ==
    IF socket # Null /\ readyState[socket] = "OPEN" THEN
        /\ call' = [call EXCEPT ![c] = [@ EXCEPT !.pc = "ready", !.ws = socket]]
        /\ UNCHANGED <<socket, connectionPromise, readyState, listeners, promise, nSockets, nPromises>>
    ELSE IF socket # Null /\ readyState[socket] = "CONNECTING" THEN
        /\ nPromises < MaxSockets + MaxCalls
        /\ NewPromiseOn(socket, nPromises + 1)
        /\ call' = [call EXCEPT ![c] = [@ EXCEPT !.pc = "awaiting", !.awaits = nPromises + 1]]
        /\ UNCHANGED <<socket, readyState, nSockets>>
    ELSE
        /\ nSockets < MaxSockets
        /\ nPromises < MaxSockets + MaxCalls
        /\ socket' = nSockets + 1
        /\ nSockets' = nSockets + 1
        /\ readyState' = [readyState EXCEPT ![nSockets + 1] = "CONNECTING"]
        /\ NewPromiseOn(nSockets + 1, nPromises + 1)
        /\ call' = [call EXCEPT ![c] = [@ EXCEPT !.pc = "awaiting", !.awaits = nPromises + 1]]

\* ensureSocketReady(), called by rpcCall invocation c, which then awaits the
\* promise returned
EnsureSocketReady(c) ==
    IF socket # Null /\ readyState[socket] = "OPEN" THEN
        \* Promise.resolve(socket)
        /\ call' = [call EXCEPT ![c] = [@ EXCEPT !.pc = "ready", !.ws = socket]]
        /\ UNCHANGED <<socket, connectionPromise, readyState, listeners, promise, nSockets, nPromises>>
    ELSE IF connectionPromise # Null THEN
        /\ call' = [call EXCEPT ![c] = [@ EXCEPT !.pc = "awaiting", !.awaits = connectionPromise]]
        /\ UNCHANGED <<socket, connectionPromise, readyState, listeners, promise, nSockets, nPromises>>
    ELSE IF socket # Null /\ readyState[socket] = "CONNECTING" THEN
        /\ nPromises < MaxSockets + MaxCalls
        /\ NewPromiseOn(socket, nPromises + 1)
        /\ call' = [call EXCEPT ![c] = [@ EXCEPT !.pc = "awaiting", !.awaits = nPromises + 1]]
        /\ UNCHANGED <<socket, readyState, nSockets>>
    ELSE
        \* socket = createSocket(); connectionPromise = new Promise(...)
        /\ nSockets < MaxSockets
        /\ nPromises < MaxSockets + MaxCalls
        /\ socket' = nSockets + 1
        /\ nSockets' = nSockets + 1
        /\ readyState' = [readyState EXCEPT ![nSockets + 1] = "CONNECTING"]
        /\ NewPromiseOn(nSockets + 1, nPromises + 1)
        /\ call' = [call EXCEPT ![c] = [@ EXCEPT !.pc = "awaiting", !.awaits = nPromises + 1]]

\* rpcCall up to its await.  Invocations are numbered in the order they are made.
Call(c) ==
    /\ call[c].pc = "idle"
    /\ \A b \in Callers : b < c => call[b].pc # "idle"
    /\ EnsureSocketReady(c)
    /\ UNCHANGED <<encoding, pending, events, sendSeq, settleSeq>>

\* pending.set / pending.delete
MapSet(m, k, v) == [x \in DOMAIN m \cup {k} |-> IF x = k THEN v ELSE m[x]]
MapDelete(m, k) == [x \in DOMAIN m \ {k} |-> m[x]]

\* rpcCall after its await, when the connection promise was rejected
ResumeRejected(c) ==
    /\ call[c].pc = "awaiting"
    /\ promise[call[c].awaits].state = "rejected"
    /\ call' = [call EXCEPT ![c] = [@ EXCEPT !.pc = "failed",
                   !.outcome = [NoOutcome EXCEPT !.kind = "connError",
                                                 !.error = promise[call[c].awaits].error]]]
    /\ UNCHANGED <<encoding, socket, connectionPromise, pending, readyState, listeners,
                   promise, nSockets, nPromises, events, sendSeq, settleSeq>>

\* Strings uuid() has returned so far
UsedIds == {call[c].id : c \in Callers} \ {Null}

\* uuid(): a string returned before (a collision), or a new one; the new strings
\* are numbered in the order they first appear
Uuid(id) == id \in UsedIds \/ id = Cardinality(UsedIds) + 1

ResumeSendLeavesEntry(c, id, encodeThrows) ==
    /\ Uuid(id)
    /\ \/ call[c].pc = "ready"
       \/ call[c].pc = "awaiting" /\ promise[call[c].awaits].state = "resolved"
    /\ LET ws == IF call[c].pc = "ready" THEN call[c].ws ELSE promise[call[c].awaits].value
           throws == encodeThrows \/ readyState[ws] = "CONNECTING"
       IN IF throws
          THEN /\ pending' = MapSet(pending, id, c)
               /\ call' = [call EXCEPT ![c] = [@ EXCEPT !.pc = "failed", !.ws = ws, !.id = id,
                              !.outcome = [NoOutcome EXCEPT !.kind = "sendError"]]]
               /\ UNCHANGED sendSeq
          ELSE /\ pending' = MapSet(pending, id, c)
               /\ call' = [call EXCEPT ![c] = [@ EXCEPT !.pc = "pending", !.ws = ws, !.id = id]]
               /\ sendSeq' = Append(sendSeq, c)
    /\ UNCHANGED <<encoding, socket, connectionPromise, readyState, listeners,
                   promise, nSockets, nPromises, events, settleSeq>>

ResumeSendUnregistered(c, id, encodeThrows) ==
    /\ Uuid(id)
    /\ \/ call[c].pc = "ready"
       \/ call[c].pc = "awaiting" /\ promise[call[c].awaits].state = "resolved"
    /\ LET ws == IF call[c].pc = "ready" THEN call[c].ws ELSE promise[call[c].awaits].value
           throws == encodeThrows \/ readyState[ws] = "CONNECTING"
       IN IF throws
          THEN /\ call' = [call EXCEPT ![c] = [@ EXCEPT !.pc = "failed", !.ws = ws, !.id = id,
                              !.outcome = [NoOutcome EXCEPT !.kind = "sendError"]]]
               /\ UNCHANGED <<pending, sendSeq>>
          ELSE /\ call' = [call EXCEPT ![c] = [@ EXCEPT !.pc = "pending", !.ws = ws, !.id = id]]
               /\ sendSeq' = Append(sendSeq, c)
               /\ UNCHANGED pending
    /\ UNCHANGED <<encoding, socket, connectionPromise, readyState, listeners,
                   promise, nSockets, nPromises, events, settleSeq>>

\* rpcCall after its await: uuid(), pending.set, encode and ws.send; a throw of
\* the encoder or of ws.send (a socket still CONNECTING) is caught.
ResumeSend(c, id, encodeThrows) ==
    /\ Uuid(id)
    /\ \/ call[c].pc = "ready"
       \/ call[c].pc = "awaiting" /\ promise[call[c].awaits].state = "resolved"
    /\ LET ws == IF call[c].pc = "ready" THEN call[c].ws ELSE promise[call[c].awaits].value
           throws == encodeThrows \/ readyState[ws] = "CONNECTING"
       IN IF throws
          THEN /\ pending' = MapDelete(MapSet(pending, id, c), id)
               /\ call' = [call EXCEPT ![c] = [@ EXCEPT !.pc = "failed", !.ws = ws, !.id = id,
                              !.outcome = [NoOutcome EXCEPT !.kind = "sendError"]]]
               /\ UNCHANGED sendSeq
          ELSE /\ pending' = MapSet(pending, id, c)
               /\ call' = [call EXCEPT ![c] = [@ EXCEPT !.pc = "pending", !.ws = ws, !.id = id]]
               /\ sendSeq' = Append(sendSeq, c)
    /\ UNCHANGED <<encoding, socket, connectionPromise, readyState, listeners,
                   promise, nSockets, nPromises, events, settleSeq>>

\* The lookup of ws.onmessage: the entry to settle, Null when there is none
LookupAny(msg) ==
    IF DOMAIN pending = {} THEN Null ELSE pending[CHOOSE k \in DOMAIN pending : TRUE]

Lookup(msg) ==
    IF msg.id \in DOMAIN pending THEN pending[msg.id] ELSE Null

\* What rpcCall hands its caller for a response message: {data, stats} through
\* resolve, {error, stats} through reject
OutcomeOf(msg) ==
    [NoOutcome EXCEPT !.kind = IF msg.ok THEN "data" ELSE "error",
                      !.body = msg.body, !.stats = msg.stats]

DeliverResetsOnUnknown(msg) ==
    LET c == Lookup(msg)
    IN IF c = Null THEN [pending |-> << >>, call |-> call]
       ELSE [pending |-> MapDelete(pending, msg.id),
             call |-> IF call[c].pc = "pending"
                      THEN [call EXCEPT ![c] = [@ EXCEPT
                               !.pc = IF msg.ok THEN "resolved" ELSE "rejected",
                               !.outcome = OutcomeOf(msg)]]
                      ELSE call]

\* ws.onmessage after the decode: pending.get, pending.delete, then resolve or
\* reject of the entry (which settles its caller if it is still waiting)
Deliver(msg) ==
    LET c == Lookup(msg)
    IN IF c = Null THEN [pending |-> pending, call |-> call]
       ELSE [pending |-> MapDelete(pending, msg.id),
             call |-> IF call[c].pc = "pending"
                      THEN [call EXCEPT ![c] = [@ EXCEPT
                               !.pc = IF msg.ok THEN "resolved" ELSE "rejected",
                               !.outcome = OutcomeOf(msg)]]
                      ELSE call]

\* The callers that go from waiting for a response to settled between two values
\* of call
SettledBetween(before, after) ==
    {c \in Callers : before[c].pc = "pending" /\ after[c].pc \in {"resolved", "rejected"}}

RECURSIVE SetToSeq(_)
SetToSeq(S) ==
    IF S = {} THEN << >>
    ELSE LET x == CHOOSE y \in S : \A z \in S : y <= z IN <<x>> \o SetToSeq(S \ {x})

\* ws.onmessage: a decode that throws ends the handler
OnMessage(ws, f) ==
    /\ readyState[ws] \in {"OPEN", "CLOSING"}
    /\ MicrotasksDrained
    /\ IF ~DecodeFrame(f)
       THEN UNCHANGED <<pending, call, settleSeq>>
       ELSE LET e == Deliver(f.msg)
            IN /\ pending' = e.pending
               /\ call' = e.call
               /\ settleSeq' = settleSeq \o SetToSeq(SettledBetween(call, e.call))
    /\ UNCHANGED <<encoding, socket, connectionPromise, readyState, listeners,
                   promise, nSockets, nPromises, events, sendSeq>>

\* the open event of a connecting socket
OpenEvent(ws) ==
    /\ readyState[ws] = "CONNECTING"
    /\ MicrotasksDrained
    /\ readyState' = [readyState EXCEPT ![ws] = "OPEN"]
    /\ events' = [events EXCEPT ![ws] = Append(@, "open")]
    /\ SetConnState(RunListeners("open", ws, listeners[ws], ConnState))
    /\ UNCHANGED <<encoding, pending, nSockets, nPromises, call, sendSeq, settleSeq>>

\* the error event of a socket: the connection has failed and its close event
\* follows; the socket is neither CONNECTING nor OPEN from here on
ErrorEvent(ws) ==
    /\ readyState[ws] \in {"CONNECTING", "OPEN"}
    /\ MicrotasksDrained
    /\ readyState' = [readyState EXCEPT ![ws] = "CLOSING"]
    /\ events' = [events EXCEPT ![ws] = Append(@, "error")]
    /\ SetConnState(RunListeners("error", ws, listeners[ws], ConnState))
    /\ UNCHANGED <<encoding, pending, nSockets, nPromises, call, sendSeq, settleSeq>>

\* the closing handshake of an open socket starts (either side)
StartClosing(ws) ==
    /\ readyState[ws] = "OPEN"
    /\ MicrotasksDrained
    /\ readyState' = [readyState EXCEPT ![ws] = "CLOSING"]
    /\ UNCHANGED <<encoding, socket, connectionPromise, pending, listeners, promise,
                   nSockets, nPromises, call, events, sendSeq, settleSeq>>

CloseEventFailsPending(ws) ==
    /\ readyState[ws] \in {"CONNECTING", "OPEN", "CLOSING"}
    /\ MicrotasksDrained
    /\ readyState' = [readyState EXCEPT ![ws] = "CLOSED"]
    /\ events' = [events EXCEPT ![ws] = Append(@, "close")]
    /\ SetConnState(RunListeners("close", ws, listeners[ws], OnClose(ws, ConnState)))
    /\ call' = [c \in Callers |->
                  IF call[c].pc = "pending" /\ call[c].ws = ws
                  THEN [call[c] EXCEPT !.pc = "rejected",
                                       !.outcome = [NoOutcome EXCEPT !.kind = "connError"]]
                  ELSE call[c]]
    /\ pending' = [k \in {x \in DOMAIN pending : call[pending[x]].ws # ws} |-> pending[k]]
    /\ UNCHANGED <<encoding, nSockets, nPromises, sendSeq, settleSeq>>

\* the close event of a socket: ws.onclose first (it was set in createSocket),
\* then the close listeners added by ensureSocketReady
CloseEvent(ws) ==
    /\ readyState[ws] \in {"CONNECTING", "OPEN", "CLOSING"}
    /\ MicrotasksDrained
    /\ readyState' = [readyState EXCEPT ![ws] = "CLOSED"]
    /\ events' = [events EXCEPT ![ws] = Append(@, "close")]
    /\ SetConnState(RunListeners("close", ws, listeners[ws], OnClose(ws, ConnState)))
    /\ UNCHANGED <<encoding, pending, nSockets, nPromises, call, sendSeq, settleSeq>>


\* ------------------------------------------------------------ dispatcher
Reqs == 1..MaxReqs
Undefined == "undefined"
MethodNames == {"getTasks", "doesNotExist"}   \* method names requests carry
Exported == {"getTasks"}                      \* the methods the server defines
ReqIdSeq == <<"1", "2">>
ReqIds == {ReqIdSeq[i] : i \in DOMAIN ReqIdSeq}
Args == {"open"}

\* What JSON.parse makes of an inbound frame: a throw ("invalid"), the value null,
\* another non-object value ("scalar": its id and method read as undefined), or a
\* request object
RawFrames ==
    {[json |-> j, id |-> Undefined, method |-> Undefined, args |-> Undefined] :
        j \in {"invalid", "null", "scalar"}}
    \cup [json : {"object"}, id : ReqIds, method : MethodNames, args : Args]

\* The interceptors installed: each is a function (context, next), told apart by
\* what it does with next
Interceptors == {
    "block",        \* returns without calling next
    "pass",         \* await next(), then returns
    "noawait",      \* calls next() and returns without awaiting it
    "swallow",      \* try { await next() } catch {}
    "throwBefore"}  \* throws without calling next
InterceptorError == [hasMessage |-> TRUE, message |-> "denied"]

\* What a handler invocation ends with: a value, an Error with a message, or a
\* thrown value without one
HandlerOutcomes ==
    {[kind |-> "return", value |-> "tasks", err |-> [hasMessage |-> FALSE, message |-> ""]],
     [kind |-> "throw", value |-> Undefined, err |-> [hasMessage |-> TRUE, message |-> "boom"]],
     [kind |-> "throw", value |-> Undefined, err |-> [hasMessage |-> FALSE, message |-> ""]]}

\* JavaScript values of the error field: an object {message} or a bare string
ErrObject(m) == [type |-> "object", message |-> m]
ErrString(m) == [type |-> "string", message |-> m]

\* err?.message ?? "Server error"
MessageOf(err) == IF err.hasMessage THEN err.message ELSE "Server error"

UnknownMethodResponse(req) ==
    [id |-> req.id, ok |-> FALSE, error |-> ErrObject("Unknown method " \o req.method)]
BlockedResponse(req) ==
    [id |-> req.id, ok |-> FALSE, error |-> ErrObject("Request blocked by middleware")]
SuccessResponse(req, result) ==
    [id |-> req.id, ok |-> TRUE, result |-> result]
ErrorResponse(req, err) ==
    [id |-> req.id, ok |-> FALSE, error |-> ErrObject(MessageOf(err))]

NoError == [hasMessage |-> FALSE, message |-> ""]
IdleReq == [pc |-> "idle", frame |-> [json |-> "invalid", id |-> Undefined, method |-> Undefined, args |-> Undefined],
            def |-> Undefined, mw |-> "none", ms |-> "none", hs |-> "none",
            nextCalled |-> FALSE, result |-> Undefined, handlerCalls |-> 0,
            handlerArgs |-> Undefined, ret |-> Undefined, thrown |-> NoError, mwErr |-> NoError,
            completion |-> "none", unhandled |-> FALSE,
            ctx |-> Null, ctxUser |-> Undefined, mwCtx |-> Null, handlerCtx |-> Null,
            handlerSaw |-> Undefined]

DispatchInit ==
    /\ methods = << >>
    /\ middleware = "none"
    /\ rq = [r \in Reqs |-> IdleReq]
    /\ sent = [r \in Reqs |-> << >>]

\* RpcRegistry.register
Register(name) ==
    /\ methods' = MapSet(methods, name, [kind |-> "method", id |-> name])
    /\ UNCHANGED <<middleware, rq, sent>>

\* RpcRegistry.setMiddleware
SetMiddleware(m) ==
    /\ middleware' = m
    /\ UNCHANGED <<methods, rq, sent>>

AfterMiddlewareIgnoringNext(q) ==
    IF q.ms = "threw" THEN ErrorResponse(q.frame, q.mwErr)
    ELSE SuccessResponse(q.frame, q.result)

\* handleMessage after `await this.middleware.handler(...)`: the frame it sends
AfterMiddleware(q) ==
    IF q.ms = "threw" THEN ErrorResponse(q.frame, q.mwErr)
    ELSE IF ~q.nextCalled THEN BlockedResponse(q.frame)
    ELSE SuccessResponse(q.frame, q.result)

\* Request ids are the callers' choice: an id seen before, or a new one; the new
\* ones are taken in a fixed order
SeenIds == {rq[r].frame.id : r \in Reqs} \ {Undefined}
FreshOrSeen(id) ==
    \/ id = Undefined
    \/ id \in SeenIds
    \/ Cardinality(SeenIds) < Len(ReqIdSeq) /\ id = ReqIdSeq[Cardinality(SeenIds) + 1]

ParseNeverFails(f) == FALSE

\* JSON.parse(raw) throws
ParseFails(f) == f.json = "invalid"

ActiveMiddlewareStale == IF rq[1].mw # "none" THEN rq[1].mw ELSE middleware

\* this.middleware, as handleMessage reads it
ActiveMiddleware == middleware

NewCtxShared(r) == 1

\* const ctx = {}: a new object for every invocation, told apart by the
\* invocation that made it
NewCtx(r) == r

\* What an interceptor writes into the context before it calls next (a resolved
\* identity, say); "block" and "throwBefore" write nothing
UserOf(m) == IF m \in {"pass", "noawait", "swallow"} THEN "user" ELSE Undefined

\* handleMessage from its start to its first suspension (or its end)
Arrive(r, f) ==
    /\ rq[r].pc = "idle"
    /\ \A b \in Reqs : b < r => rq[b].pc # "idle"
    /\ FreshOrSeen(f.id)
    /\ LET q == [rq[r] EXCEPT !.frame = f] IN
       IF ParseFails(f) THEN
            \* JSON.parse throws: return
            /\ rq' = [rq EXCEPT ![r] = [q EXCEPT !.pc = "done", !.completion = "fulfilled"]]
            /\ UNCHANGED sent
       ELSE IF f.json = "null" THEN
            \* req.method on null: a TypeError outside every try block
            /\ rq' = [rq EXCEPT ![r] = [q EXCEPT !.pc = "done", !.completion = "rejected"]]
            /\ UNCHANGED sent
       ELSE IF f.method \notin DOMAIN methods THEN
            /\ rq' = [rq EXCEPT ![r] = [q EXCEPT !.pc = "done", !.completion = "fulfilled"]]
            /\ sent' = [sent EXCEPT ![r] = Append(@, UnknownMethodResponse(f))]
       ELSE IF ActiveMiddleware = "none" THEN
            \* result = await def.handler(req.args, ctx)
            /\ rq' = [rq EXCEPT ![r] = [q EXCEPT !.pc = "awaitHandler", !.completion = "pending",
                         !.def = methods[f.method].id, !.hs = "running",
                         !.handlerCalls = @ + 1, !.handlerArgs = f.args,
                         !.ctx = NewCtx(r), !.handlerCtx = NewCtx(r)]]
            /\ UNCHANGED sent
       ELSE IF ActiveMiddleware \in {"block", "throwBefore"} THEN
            /\ rq' = [rq EXCEPT ![r] = [q EXCEPT !.pc = "awaitMw", !.completion = "pending",
                         !.def = methods[f.method].id, !.mw = ActiveMiddleware,
                         !.ms = IF ActiveMiddleware = "block" THEN "returned" ELSE "threw",
                         !.mwErr = IF ActiveMiddleware = "block" THEN NoError ELSE InterceptorError,
                         !.ctx = NewCtx(r), !.mwCtx = NewCtx(r)]]
            /\ UNCHANGED sent
       ELSE
            \* the interceptor writes into ctx and calls next(): nextCalled = true and
            \* the handler starts, with the same ctx
            /\ rq' = [rq EXCEPT ![r] = [q EXCEPT !.pc = "awaitMw", !.completion = "pending",
                         !.def = methods[f.method].id, !.mw = ActiveMiddleware,
                         !.ms = IF ActiveMiddleware = "noawait" THEN "returned" ELSE "awaitNext",
                         !.nextCalled = TRUE, !.hs = "running",
                         !.handlerCalls = @ + 1, !.handlerArgs = f.args,
                         !.ctx = NewCtx(r), !.mwCtx = NewCtx(r),
                         !.ctxUser = UserOf(ActiveMiddleware),
                         !.handlerCtx = NewCtx(r), !.handlerSaw = UserOf(ActiveMiddleware)]]
            /\ UNCHANGED sent
    /\ UNCHANGED <<methods, middleware>>

\* The interceptor has returned or thrown: handleMessage resumes after its await
\* and sends its frame
MwSettled(r) ==
    /\ rq[r].pc = "awaitMw"
    /\ rq[r].ms \in {"returned", "threw"}
    /\ sent' = [sent EXCEPT ![r] = Append(@, AfterMiddleware(rq[r]))]
    /\ rq' = [rq EXCEPT ![r] = [@ EXCEPT !.pc = "done", !.completion = "fulfilled"]]
    /\ UNCHANGED <<methods, middleware>>

\* The handler's promise settles with outcome o; whoever awaits it resumes
HandlerFinish(r, o) ==
    /\ rq[r].hs = "running"
    /\ LET q == [rq[r] EXCEPT !.hs = IF o.kind = "return" THEN "returned" ELSE "threw",
                              !.ret = o.value, !.thrown = o.err,
                              \* result = await def.handler(...)
                              !.result = IF o.kind = "return" THEN o.value ELSE @]
       IN IF q.pc = "awaitHandler" THEN
              \* no interceptor: the try block goes on, or the catch block runs
              /\ sent' = [sent EXCEPT ![r] = Append(@,
                             IF o.kind = "return" THEN SuccessResponse(q.frame, q.result) ELSE ErrorResponse(q.frame, o.err))]
              /\ rq' = [rq EXCEPT ![r] = [q EXCEPT !.pc = "done", !.completion = "fulfilled"]]
          ELSE IF q.ms = "awaitNext" THEN
              \* the interceptor resumes after its await next()
              /\ rq' = [rq EXCEPT ![r] =
                          IF o.kind = "return"
                          THEN [q EXCEPT !.ms = "returned"]
                          ELSE IF q.mw = "swallow"
                               THEN [q EXCEPT !.ms = "returned"]
                               ELSE [q EXCEPT !.ms = "threw", !.mwErr = o.err]]
              /\ UNCHANGED sent
          ELSE
              \* nobody awaits the continuation: a rejection of it is unhandled
              /\ rq' = [rq EXCEPT ![r] = [q EXCEPT !.unhandled = (o.kind = "throw")]]
              /\ UNCHANGED sent
    /\ UNCHANGED <<methods, middleware>>


\* ------------------------------------------------------ worker supervisor
WorkerNames == {"a", "b"}    \* worker.name
InstanceIds == 1..MaxInstances
RestartBudgets == {0, 1, 2}    \* options.maxRestarts (0: unlimited, the default)

\* What defineWorker returns: the name and the resolved options that matter to
\* the run loop
WorkerDefs ==
    [name : WorkerNames, autoRestart : {FALSE}, maxRestarts : {0}]
    \cup [name : WorkerNames, autoRestart : {TRUE}, maxRestarts : RestartBudgets]

\* Worker names are the application's choice; they are taken in a fixed order
NameSeq == <<"a", "b">>
StartedNames == {inst[i].name : i \in InstanceIds} \ {""}
NewOrStarted(name) ==
    \/ name \in StartedNames
    \/ Cardinality(StartedNames) < Len(NameSeq) /\ name = NameSeq[Cardinality(StartedNames) + 1]

\* A definition is immutable once created: every start of a name passes the
\* definition that name was first started with
SameDefinition(def) ==
    \A i \in InstanceIds :
        inst[i].name = def.name =>
            inst[i].autoRestart = def.autoRestart /\ inst[i].maxRestarts = def.maxRestarts

\* How one run attempt begins: createContext() throws, the handler throws before
\* it returns (a handler that is not async), or the handler returns a value or a
\* promise and runWorker suspends at `await handler(ctx)`
RunKinds == {"ctxThrows", "syncThrow", "async"}

\* The same synchronous failures with a thrown value String() cannot convert
OpaqueKinds == {"ctxThrowsOpaque", "syncThrowOpaque"}

\* The value a synchronous failure of that kind throws: an Error or another value
\* String() converts ("error"), or a value String() cannot convert, such as
\* Object.create(null) or an object whose toString throws ("opaque")
ThrownBy(kind) == IF kind \in {"ctxThrowsOpaque", "syncThrowOpaque"} THEN "opaque" ELSE "error"

\* A WorkerInstance with the closure state of its startWorker call: the options,
\* the abort signal, the local restartCount (always equal to the instance's), and
\* where its run loop is
NoInstance == [name |-> "", autoRestart |-> FALSE, maxRestarts |-> 0, status |-> "none",
               restartCount |-> 0, aborted |-> FALSE, lastError |-> FALSE,
               pc |-> "none", runs |-> 0, ctxCalls |-> 0, exit |-> "none"]

NoCall == [op |-> "none", name |-> "", value |-> Null]

WorkerInit ==
    /\ runningWorkers = << >>
    /\ inst = [i \in InstanceIds |-> NoInstance]
    /\ nInst = 0
    /\ ret = NoCall

\* Run attempts so far, of all instances
RECURSIVE AttemptsOf(_)
AttemptsOf(S) ==
    IF S = {} THEN 0
    ELSE LET i == CHOOSE j \in S : TRUE IN inst[i].ctxCalls + AttemptsOf(S \ {i})
Attempts == AttemptsOf(InstanceIds)

\* The supervisor state the run loop touches
WorkerState == [inst |-> inst, rw |-> runningWorkers]

CatchMarksStopped(i, v, st) ==
    LET w == st.inst[i]
        rc == w.restartCount + 1
        w1 == [w EXCEPT !.lastError = TRUE, !.status = "crashed", !.restartCount = rc]
    IN IF w.aborted THEN
           [st EXCEPT !.inst[i] = [w EXCEPT !.pc = "exited", !.exit = "aborted"]]
       ELSE IF w.autoRestart /\ ~(w.maxRestarts > 0 /\ rc >= w.maxRestarts) THEN
           [st EXCEPT !.inst[i] = [w1 EXCEPT !.status = "restarting", !.pc = "delay"]]
       ELSE
           [inst |-> [st.inst EXCEPT ![i] = [w1 EXCEPT !.status = "stopped", !.pc = "exited", !.exit = "gaveUp"]],
            rw |-> MapDelete(st.rw, w.name)]

CatchIgnoringAbort(i, v, st) ==
    LET w == st.inst[i]
        rc == w.restartCount + 1
        w1 == [w EXCEPT !.lastError = TRUE, !.status = "crashed", !.restartCount = rc]
    IN IF w.autoRestart /\ ~(w.maxRestarts > 0 /\ rc >= w.maxRestarts) THEN
           [st EXCEPT !.inst[i] = [w1 EXCEPT !.status = "restarting", !.pc = "delay"]]
       ELSE
           [inst |-> [st.inst EXCEPT ![i] = [w1 EXCEPT !.pc = "exited", !.exit = "gaveUp"]],
            rw |-> MapDelete(st.rw, w.name)]

CatchDelayCrashed(i, v, st) ==
    LET w == st.inst[i]
        rc == w.restartCount + 1
        w1 == [w EXCEPT !.lastError = TRUE, !.status = "crashed", !.restartCount = rc]
    IN IF w.aborted THEN
           [st EXCEPT !.inst[i] = [w EXCEPT !.pc = "exited", !.exit = "aborted"]]
       ELSE IF v = "opaque" THEN
           [st EXCEPT !.inst[i] = [w EXCEPT !.pc = "exited", !.exit = "rejected"]]
       ELSE IF w.autoRestart /\ ~(w.maxRestarts > 0 /\ rc >= w.maxRestarts) THEN
           [st EXCEPT !.inst[i] = [w1 EXCEPT !.pc = "delay"]]
       ELSE
           [inst |-> [st.inst EXCEPT ![i] = [w1 EXCEPT !.pc = "exited", !.exit = "gaveUp"]],
            rw |-> MapDelete(st.rw, w.name)]

\* The catch block of runWorker, for instance i and the thrown value v
Catch(i, v, st) ==
    LET w == st.inst[i]
        rc == w.restartCount + 1
        w1 == [w EXCEPT !.lastError = TRUE, !.status = "crashed", !.restartCount = rc]
    IN IF w.aborted THEN
           \* the worker was intentionally stopped: break
           [st EXCEPT !.inst[i] = [w EXCEPT !.pc = "exited", !.exit = "aborted"]]
       ELSE IF v = "opaque" THEN
           \* new Error(String(error)) throws a TypeError inside the catch block:
           \* nothing is assigned and the promise of runWorker() is rejected
           [st EXCEPT !.inst[i] = [w EXCEPT !.pc = "exited", !.exit = "rejected"]]
       ELSE IF w.autoRestart THEN
           IF w.maxRestarts > 0 /\ rc >= w.maxRestarts THEN
               [inst |-> [st.inst EXCEPT ![i] = [w1 EXCEPT !.pc = "exited", !.exit = "gaveUp"]],
                rw |-> MapDelete(st.rw, w.name)]
           ELSE
               \* await new Promise(resolve => setTimeout(resolve, restartDelayMs))
               [st EXCEPT !.inst[i] = [w1 EXCEPT !.status = "restarting", !.pc = "delay"]]
       ELSE
           [inst |-> [st.inst EXCEPT ![i] = [w1 EXCEPT !.pc = "exited", !.exit = "gaveUp"]],
            rw |-> MapDelete(st.rw, w.name)]

\* One pass of the while loop of runWorker from its top to its first suspension
\* (or to the end of the loop), once the abort check has passed
RunIteration(i, kind, st) ==
    LET w == [st.inst[i] EXCEPT !.status = "running", !.ctxCalls = @ + 1]
    IN IF kind \in {"ctxThrows", "ctxThrowsOpaque"} THEN
           Catch(i, ThrownBy(kind), [st EXCEPT !.inst[i] = w])
       ELSE IF kind \in {"syncThrow", "syncThrowOpaque"} THEN
           Catch(i, ThrownBy(kind), [st EXCEPT !.inst[i] = [w EXCEPT !.runs = @ + 1]])
       ELSE [st EXCEPT !.inst[i] = [w EXCEPT !.runs = @ + 1, !.pc = "handler"]]

SetWorkerState(st) ==
    /\ inst' = st.inst
    /\ runningWorkers' = st.rw

\* The record of an API call
Returned(op, name, value) == [op |-> op, name |-> name, value |-> value]

\* A new WorkerInstance of startWorker
NewInstance(def) ==
    [NoInstance EXCEPT !.name = def.name, !.autoRestart = def.autoRestart,
                       !.maxRestarts = def.maxRestarts, !.status = "running"]

StartWorkerOpAlways(def, kind, st) ==
    IF nInst < MaxInstances THEN
        LET i == nInst + 1
            s1 == RunIteration(i, kind, [st EXCEPT !.inst[i] = NewInstance(def)])
        IN [inst |-> s1.inst, rw |-> MapSet(s1.rw, def.name, i), n |-> i, value |-> i]
    ELSE [inst |-> st.inst, rw |-> st.rw, n |-> nInst, value |-> st.rw[def.name]]

\* startWorker(worker, createContext) in supervisor state st: the state it
\* leaves and the instance it returns.  It has no await of its own, and
\* runWorker() runs inside it up to its first suspension, before
\* runningWorkers.set.
StartWorkerOp(def, kind, st) ==
    IF def.name \in DOMAIN st.rw THEN
        [inst |-> st.inst, rw |-> st.rw, n |-> nInst, value |-> st.rw[def.name]]
    ELSE
        LET i == nInst + 1
            s1 == RunIteration(i, kind, [st EXCEPT !.inst[i] = NewInstance(def)])
        IN [inst |-> s1.inst, rw |-> MapSet(s1.rw, def.name, i), n |-> i, value |-> i]

StartWorker(def, kind) ==
    /\ def.name \notin DOMAIN runningWorkers => nInst < MaxInstances /\ Attempts < MaxRuns
    /\ LET r == StartWorkerOp(def, kind, WorkerState)
       IN /\ inst' = r.inst
          /\ runningWorkers' = r.rw
          /\ nInst' = r.n
          /\ ret' = Returned("start", def.name, r.value)

\* How the promise of handler(ctx) settles: fulfilled, or rejected with an Error
\* (or another value String() converts)
Settlements == {"return", "throw"}

HandlerSettlesKeepsEntry(i, o) ==
    /\ inst[i].pc = "handler"
    /\ IF o = "return" THEN
           /\ inst' = [inst EXCEPT ![i] = [@ EXCEPT !.status = IF inst[i].aborted THEN @ ELSE "stopped",
                                                    !.pc = "exited",
                                                    !.exit = IF inst[i].aborted THEN "aborted" ELSE "returned"]]
           /\ UNCHANGED runningWorkers
       ELSE SetWorkerState(Catch(i, IF o = "throwOpaque" THEN "opaque" ELSE "error", WorkerState))
    /\ ret' = NoCall
    /\ UNCHANGED nInst

\* The promise of handler(ctx) settles and runWorker resumes after its await
\* ("throw": rejected with an Error; "throwOpaque": rejected with a value
\* String() cannot convert)
HandlerSettles(i, o) ==
    /\ inst[i].pc = "handler"
    /\ IF o = "return" THEN
           IF ~inst[i].aborted THEN
               /\ inst' = [inst EXCEPT ![i] = [@ EXCEPT !.status = "stopped", !.pc = "exited",
                                                        !.exit = "returned"]]
               /\ runningWorkers' = MapDelete(runningWorkers, inst[i].name)
           ELSE
               /\ inst' = [inst EXCEPT ![i] = [@ EXCEPT !.pc = "exited", !.exit = "aborted"]]
               /\ UNCHANGED runningWorkers
       ELSE SetWorkerState(Catch(i, IF o = "throwOpaque" THEN "opaque" ELSE "error", WorkerState))
    /\ ret' = NoCall
    /\ UNCHANGED nInst

\* The restart delay elapses: the loop condition is checked and the next run
\* attempt begins
TimerFires(i, kind) ==
    /\ inst[i].pc = "delay"
    /\ IF inst[i].aborted THEN
           /\ inst' = [inst EXCEPT ![i] = [@ EXCEPT !.pc = "exited", !.exit = "aborted"]]
           /\ UNCHANGED runningWorkers
       ELSE
           /\ Attempts < MaxRuns
           /\ SetWorkerState(RunIteration(i, kind, WorkerState))
    /\ ret' = NoCall
    /\ UNCHANGED nInst

StopWorkerOpFound(name, st) ==
    [inst |-> st.inst, rw |-> MapDelete(st.rw, name), value |-> TRUE]

\* stopWorker(name) in supervisor state st: the state it leaves and the boolean
\* it returns
StopWorkerOp(name, st) ==
    IF name \in DOMAIN st.rw THEN
        [inst |-> [st.inst EXCEPT ![st.rw[name]] = [@ EXCEPT !.aborted = TRUE, !.status = "stopped"]],
         rw |-> MapDelete(st.rw, name), value |-> TRUE]
    ELSE [inst |-> st.inst, rw |-> st.rw, value |-> FALSE]

StopWorker(name) ==
    /\ LET r == StopWorkerOp(name, WorkerState)
       IN /\ inst' = r.inst
          /\ runningWorkers' = r.rw
          /\ ret' = Returned("stop", name, r.value)
    /\ UNCHANGED nInst

\* instance.stop() of the handle startWorker returned
InstanceStop(i) ==
    /\ inst[i].pc # "none"
    /\ inst' = [inst EXCEPT ![i] = [@ EXCEPT !.aborted = TRUE, !.status = "stopped"]]
    /\ runningWorkers' = MapDelete(runningWorkers, inst[i].name)
    /\ ret' = Returned("instanceStop", "", Null)
    /\ UNCHANGED nInst

StopAllWorkersKeepsSignal ==
    /\ LET S == {runningWorkers[n] : n \in DOMAIN runningWorkers}
       IN inst' = [i \in InstanceIds |->
                     IF i \in S THEN [inst[i] EXCEPT !.status = "stopped"] ELSE inst[i]]
    /\ runningWorkers' = << >>
    /\ ret' = Returned("stopAll", "", Null)
    /\ UNCHANGED nInst

\* stopAllWorkers()
StopAllWorkers ==
    /\ LET S == {runningWorkers[n] : n \in DOMAIN runningWorkers}
       IN inst' = [i \in InstanceIds |->
                     IF i \in S THEN [inst[i] EXCEPT !.aborted = TRUE, !.status = "stopped"] ELSE inst[i]]
    /\ runningWorkers' = << >>
    /\ ret' = Returned("stopAll", "", Null)
    /\ UNCHANGED nInst

\* getWorkerStatus(): the instances of the registry
GetWorkerStatus == {runningWorkers[n] : n \in DOMAIN runningWorkers}

\* getWorkerById(name)
GetWorkerById(name) == IF name \in DOMAIN runningWorkers THEN runningWorkers[name] ELSE Null

\* ------------------------------------------------- useFetch, TTL refetch
EffectIds == 1..MaxEffects
Keys == {"k1", "k2"}           \* cacheKey(method.__id, args)

\* The dependencies of the effect that matter to it: the key, whether ttl is set
\* (a positive number) and enabled
Deps == [key : Keys, ttl : BOOLEAN, enabled : BOOLEAN]

\* One run of the effect: its closure (timeoutId and the timer it names) and the
\* refetch request it has in flight.  timer: "none" (timeoutId undefined),
\* "armed", "fired", or "cleared" (by clearTimeout)
NoEffect == [state |-> "none", deps |-> [key |-> "", ttl |-> FALSE, enabled |-> FALSE],
             timer |-> "none", inflight |-> FALSE, issued |-> 0]

FetchInit ==
    /\ fx = [e \in EffectIds |-> NoEffect]
    /\ nFx = 0

\* TTL refetch requests issued so far, by all runs of the effect
RECURSIVE IssuedBy(_)
IssuedBy(S) ==
    IF S = {} THEN 0
    ELSE LET e == CHOOSE x \in S : TRUE IN fx[e].issued + IssuedBy(S \ {e})
Issued == IssuedBy(EffectIds)

\* scheduleRefetch(): clearTimeout of the timer timeoutId names (nothing happens
\* when it has fired), then setTimeout
ScheduleRefetch(f) == [f EXCEPT !.timer = "armed"]

\* The cleanup the effect returned: clearTimeout(timeoutId) when it is defined.
\* A run that returned early (not enabled, or no ttl) returned no cleanup.
EffectCleanup(f) ==
    [f EXCEPT !.state = "cleaned", !.timer = IF @ = "armed" THEN "cleared" ELSE @]

\* The body of the effect for dependencies d, with has(key) as the cache answers
RunEffect(d, cached) ==
    LET f == [NoEffect EXCEPT !.state = "live", !.deps = d]
    IN IF ~d.enabled \/ ~d.ttl THEN f
       ELSE IF cached THEN ScheduleRefetch(f)
       ELSE f

\* The effect that is live now, 0 when the component is not mounted
LiveEffect == IF nFx > 0 /\ fx[nFx].state = "live" THEN nFx ELSE 0

\* The component mounts, or renders with changed dependencies: React runs the
\* cleanup of the previous run of the effect, then the effect.  Keys are taken in
\* a fixed order.
Render(d, cached) ==
    /\ nFx < MaxEffects
    /\ nFx = 0 => d.key = "k1"
    /\ LiveEffect # 0 => d # fx[LiveEffect].deps
    /\ fx' = [e \in EffectIds |->
                IF e = nFx + 1 THEN RunEffect(d, cached)
                ELSE IF e = LiveEffect THEN EffectCleanup(fx[e])
                ELSE fx[e]]
    /\ nFx' = nFx + 1

\* The component unmounts: React runs the cleanup
Unmount ==
    /\ LiveEffect # 0
    /\ fx' = [fx EXCEPT ![LiveEffect] = EffectCleanup(@)]
    /\ UNCHANGED nFx

\* The timer of run e fires: enabled is true in this closure, so rpcCall is made
TtlTimerFires(e) ==
    /\ fx[e].timer = "armed"
    /\ Issued < MaxRefetches
    /\ fx' = [fx EXCEPT ![e] = [@ EXCEPT !.timer = "fired", !.inflight = TRUE, !.issued = @ + 1]]
    /\ UNCHANGED nFx

\* The refetch request of run e settles: then or catch, both end with
\* scheduleRefetch()
RefetchSettles(e, ok) ==
    /\ fx[e].inflight
    /\ fx' = [fx EXCEPT ![e] = ScheduleRefetch([@ EXCEPT !.inflight = FALSE])]
    /\ UNCHANGED nFx

NextFetch ==
    \/ \E d \in Deps, cached \in BOOLEAN : Render(d, cached) /\ UNCHANGED <<clientVars, dispatchVars, workerVars>>
    \/ Unmount /\ UNCHANGED <<clientVars, dispatchVars, workerVars>>
    \/ \E e \in EffectIds : TtlTimerFires(e) /\ UNCHANGED <<clientVars, dispatchVars, workerVars>>
    \/ \E e \in EffectIds, ok \in BOOLEAN : RefetchSettles(e, ok) /\ UNCHANGED <<clientVars, dispatchVars, workerVars>>


\* A caller reads the registry: getWorkerStatus() hands out the instances of the
\* registry themselves, getWorkerById(name) the instance itself (undefined when
\* there is none)
QueryAll ==
    /\ ret' = Returned("getWorkerStatus", "", GetWorkerStatus)
    /\ UNCHANGED <<inst, runningWorkers, nInst>>

QueryById(name) ==
    /\ ret' = Returned("getWorkerById", name, GetWorkerById(name))
    /\ UNCHANGED <<inst, runningWorkers, nInst>>

\* The values of WorkerInstance.status
Statuses == {"running", "stopped", "crashed", "restarting"}

\* Instance i is among what the last query returned
ReturnedByQuery(i) ==
    \/ ret.op = "getWorkerById" /\ ret.value = i
    \/ ret.op = "getWorkerStatus" /\ i \in ret.value

\* The caller of a query assigns to the status field of a value it was returned
WriteThrough(i, status) ==
    /\ ReturnedByQuery(i)
    /\ status # inst[i].status
    /\ inst' = [inst EXCEPT ![i] = [@ EXCEPT !.status = status]]
    /\ ret' = Returned("write", "", Null)
    /\ UNCHANGED <<runningWorkers, nInst>>

\* The caller of a query calls stop() of a value it was returned
StopThrough(i) ==
    /\ ReturnedByQuery(i)
    /\ inst' = [inst EXCEPT ![i] = [@ EXCEPT !.aborted = TRUE, !.status = "stopped"]]
    /\ runningWorkers' = MapDelete(runningWorkers, inst[i].name)
    /\ ret' = Returned("stopReturned", "", Null)
    /\ UNCHANGED nInst

NextWorker ==
    \/ \E d \in WorkerDefs, k \in RunKinds : NewOrStarted(d.name) /\ SameDefinition(d) /\ StartWorker(d, k) /\ UNCHANGED <<clientVars, dispatchVars, fetchVars>>
    \/ \E i \in InstanceIds, o \in Settlements : HandlerSettles(i, o) /\ UNCHANGED <<clientVars, dispatchVars, fetchVars>>
    \/ \E i \in InstanceIds, k \in RunKinds : TimerFires(i, k) /\ UNCHANGED <<clientVars, dispatchVars, fetchVars>>
    \/ \E n \in WorkerNames : StopWorker(n) /\ UNCHANGED <<clientVars, dispatchVars, fetchVars>>
    \/ \E i \in InstanceIds : InstanceStop(i) /\ UNCHANGED <<clientVars, dispatchVars, fetchVars>>
    \/ StopAllWorkers /\ UNCHANGED <<clientVars, dispatchVars, fetchVars>>

\* The supervisor with failures whose thrown value String() cannot convert as well
NextWorkerThrows ==
    \/ NextWorker
    \/ \E d \in WorkerDefs, k \in OpaqueKinds : NewOrStarted(d.name) /\ SameDefinition(d) /\ StartWorker(d, k) /\ UNCHANGED <<clientVars, dispatchVars, fetchVars>>
    \/ \E i \in InstanceIds : HandlerSettles(i, "throwOpaque") /\ UNCHANGED <<clientVars, dispatchVars, fetchVars>>
    \/ \E i \in InstanceIds, k \in OpaqueKinds : TimerFires(i, k) /\ UNCHANGED <<clientVars, dispatchVars, fetchVars>>

\* The supervisor with callers that query it and use what they are returned
NextWorkerQueries ==
    \/ NextWorker
    \/ QueryAll /\ UNCHANGED <<clientVars, dispatchVars, fetchVars>>
    \/ \E n \in WorkerNames : QueryById(n) /\ UNCHANGED <<clientVars, dispatchVars, fetchVars>>
    \/ \E i \in InstanceIds, s \in Statuses : WriteThrough(i, s) /\ UNCHANGED <<clientVars, dispatchVars, fetchVars>>
    \/ \E i \in InstanceIds : StopThrough(i) /\ UNCHANGED <<clientVars, dispatchVars, fetchVars>>

NextDispatch ==
    \/ \E n \in Exported : Register(n) /\ UNCHANGED <<clientVars, workerVars, fetchVars>>
    \/ \E m \in Interceptors : SetMiddleware(m) /\ UNCHANGED <<clientVars, workerVars, fetchVars>>
    \/ \E r \in Reqs, f \in RawFrames : Arrive(r, f) /\ UNCHANGED <<clientVars, workerVars, fetchVars>>
    \/ \E r \in Reqs : MwSettled(r) /\ UNCHANGED <<clientVars, workerVars, fetchVars>>
    \/ \E r \in Reqs, o \in HandlerOutcomes : HandlerFinish(r, o) /\ UNCHANGED <<clientVars, workerVars, fetchVars>>

NextClient ==
    \/ \E c \in Callers : Call(c) /\ UNCHANGED <<dispatchVars, workerVars, fetchVars>>
    \/ \E c \in Callers : ResumeRejected(c) /\ UNCHANGED <<dispatchVars, workerVars, fetchVars>>
    \/ \E c \in Callers, id \in Ids, t \in BOOLEAN : ResumeSend(c, id, t) /\ UNCHANGED <<dispatchVars, workerVars, fetchVars>>
    \/ \E ws \in SocketIds, f \in Frames : OnMessage(ws, f) /\ UNCHANGED <<dispatchVars, workerVars, fetchVars>>
    \/ \E ws \in SocketIds : OpenEvent(ws) /\ UNCHANGED <<dispatchVars, workerVars, fetchVars>>
    \/ \E ws \in SocketIds : ErrorEvent(ws) /\ UNCHANGED <<dispatchVars, workerVars, fetchVars>>
    \/ \E ws \in SocketIds : StartClosing(ws) /\ UNCHANGED <<dispatchVars, workerVars, fetchVars>>
    \/ \E ws \in SocketIds : CloseEvent(ws) /\ UNCHANGED <<dispatchVars, workerVars, fetchVars>>

Init == ClientInit /\ DispatchInit /\ WorkerInit /\ FetchInit

\* The client on its own (whatever encoding the page advertises), the
\* dispatcher on its own, and the worker supervisor on its own
SpecClient == Init /\ [][NextClient]_vars
InitDispatch == encoding = "none" /\ ClientIdle /\ DispatchInit /\ WorkerInit /\ FetchInit
SpecDispatch == InitDispatch /\ [][NextDispatch]_vars
InitWorker == encoding = "none" /\ ClientIdle /\ DispatchInit /\ WorkerInit /\ FetchInit
SpecWorker == InitWorker /\ [][NextWorker]_vars
SpecWorkerThrows == InitWorker /\ [][NextWorkerThrows]_vars
SpecWorkerQueries == InitWorker /\ [][NextWorkerQueries]_vars
InitFetch == encoding = "none" /\ ClientIdle /\ DispatchInit /\ WorkerInit /\ FetchInit
SpecFetch == InitFetch /\ [][NextFetch]_vars

\* ================================================================ claims

\* C1: every inbound response settles exactly the caller whose PendingCall is
\* keyed by the response's id, with that response's result or error and stats,
\* and settles no other caller, whatever the order the responses arrive in.
C1_Correlation ==
    \A f \in Frames :
        DecodeFrame(f) =>
            LET e == Deliver(f.msg)
                S == SettledBetween(call, e.call)
            IN /\ f.msg.id \in DOMAIN pending => S = {pending[f.msg.id]}
               /\ f.msg.id \notin DOMAIN pending => S = {}
               /\ \A c \in S : /\ call[c].id = f.msg.id
                               /\ e.call[c].outcome = OutcomeOf(f.msg)
               /\ \A c \in Callers \ S : e.call[c] = call[c]

\* C1 witness: two calls with distinct ids were outstanding together and their
\* responses arrived in the reverse of the order the requests were sent in
C1_Witness ==
    /\ sendSeq = <<1, 2>>
    /\ settleSeq = <<2, 1>>
    /\ call[1].id # call[2].id
    /\ call[1].outcome.kind # call[2].outcome.kind

\* A connection attempt is in progress: some socket is still connecting
AttemptInProgress == \E ws \in SocketIds : readyState[ws] = "CONNECTING"

\* C2: while a connection attempt is in progress every further call gets the same
\* in-progress future and no second socket is created; every caller that waited
\* on an attempt sends on the socket of that attempt.
C2_Coalescing ==
    [][ /\ AttemptInProgress => nSockets' = nSockets
        /\ \A c \in Callers :
              (AttemptInProgress /\ call[c].pc = "idle" /\ call'[c].pc # "idle") =>
                 /\ connectionPromise # Null
                 /\ connectionPromise' = connectionPromise
                 /\ promise[connectionPromise].state = "pending"
                 /\ call'[c].pc = "awaiting"
                 /\ call'[c].awaits = connectionPromise
        /\ \A c \in Callers :
              (call[c].awaits # Null /\ call[c].pc = "awaiting" /\ call'[c].pc = "pending") =>
                 /\ call'[c].ws = promise[call[c].awaits].sock
                 /\ readyState[call'[c].ws] = "OPEN"
      ]_vars

\* C2 witness: two calls made during one attempt shared its future and both sent
\* on the one socket that was ever created
C2_Witness ==
    \E c, d \in Callers :
        /\ c # d
        /\ call[c].awaits # Null
        /\ call[c].awaits = call[d].awaits
        /\ call[c].pc = "pending" /\ call[d].pc = "pending"
        /\ call[c].ws = call[d].ws
        /\ nSockets = 1

\* C3: the dispatcher produces exactly one response frame for every frame that
\* decodes, whatever its content, the registry, the interceptor and the handler's
\* outcome.
C3_ExactlyOneResponse ==
    \A r \in Reqs :
        (rq[r].pc # "idle" /\ rq[r].frame.json # "invalid") =>
            /\ Len(sent[r]) <= 1
            /\ rq[r].pc = "done" => Len(sent[r]) = 1

\* C4: handleMessage completes normally for every inbound frame: its promise is
\* never rejected.
C4_NeverPropagates ==
    \A r \in Reqs : rq[r].completion # "rejected"

\* C5: every exception raised by the target handler, called directly or inside
\* the interceptor's continuation, ends in a Failure response with the request's
\* id and the exception's message, and never in a Success response.
C5_HandlerErrorIsFailure ==
    \A r \in Reqs :
        rq[r].hs = "threw" =>
            /\ \A i \in DOMAIN sent[r] : ~sent[r][i].ok
            /\ rq[r].pc = "done" =>
                  /\ Len(sent[r]) = 1
                  /\ sent[r][1].id = rq[r].frame.id
                  /\ sent[r][1].error.message = MessageOf(rq[r].thrown)

\* The interceptor of invocation r returned without calling next
Blocked(r) == rq[r].mw # "none" /\ rq[r].ms = "returned" /\ ~rq[r].nextCalled

UnknownMethod(r) ==
    rq[r].pc = "done" /\ rq[r].frame.json \in {"scalar", "object"} /\ rq[r].def = Undefined

\* C7: a request whose method is not in the registry yields a Failure with the
\* request's id whose error is the bare string "Unknown method <name>".
C7_UnknownMethodBareString ==
    \A r \in Reqs :
        UnknownMethod(r) =>
            /\ Len(sent[r]) = 1
            /\ ~sent[r][1].ok
            /\ sent[r][1].id = rq[r].frame.id
            /\ sent[r][1].error = ErrString("Unknown method " \o rq[r].frame.method)

\* C8: when a registered handler is admitted (no interceptor, or the interceptor
\* calls next) and returns normally, the response is Success with the request's
\* id and the value the handler returned.
C8_SuccessCarriesResult ==
    \A r \in Reqs :
        (rq[r].pc = "done" /\ rq[r].hs = "returned") =>
            /\ Len(sent[r]) = 1
            /\ sent[r][1].ok
            /\ sent[r][1].id = rq[r].frame.id
            /\ sent[r][1].result = rq[r].ret

\* C9: every response frame the dispatcher emits carries a stats field.
C9_ResponsesCarryStats ==
    \A r \in Reqs : \A i \in DOMAIN sent[r] : "stats" \in DOMAIN sent[r][i]

\* The first event on ws was an error: the attempt failed before it opened
FailedBeforeOpen(ws) == ws # Null /\ Len(events[ws]) > 0 /\ events[ws][1] = "error"

InSeq(x, sq) == \E i \in DOMAIN sq : sq[i] = x

\* C10: when a connection attempt fails with an error event before opening, every
\* caller that awaited the attempt is failed with a connection error: none stays
\* waiting and none sends.
C10_ErrorFailsWaiters ==
    \A c \in Callers :
        (call[c].awaits # Null /\ FailedBeforeOpen(promise[call[c].awaits].sock)) =>
            /\ promise[call[c].awaits].state = "rejected"
            /\ promise[call[c].awaits].error = "WebSocket connection failed"
            /\ call[c].pc \in {"awaiting", "failed"}
            /\ MicrotasksDrained => call[c].pc = "failed"
            /\ call[c].pc = "failed" =>
                  /\ call[c].outcome.kind = "connError"
                  /\ call[c].outcome.error = "WebSocket connection failed"
            /\ ~InSeq(c, sendSeq)
            /\ \A k \in DOMAIN pending : pending[k] # c

\* C10 witness: two callers awaited one attempt, it failed with an error event,
\* and both were failed with the connection error
C10_Witness ==
    \E c, d \in Callers :
        /\ c # d
        /\ call[c].awaits # Null
        /\ call[c].awaits = call[d].awaits
        /\ FailedBeforeOpen(promise[call[c].awaits].sock)
        /\ call[c].pc = "failed" /\ call[d].pc = "failed"
        /\ call[c].outcome.error = "WebSocket connection failed"

\* The first event on ws was a close: the connection closed before it opened,
\* without an error event
ClosedBeforeOpen(ws) == ws # Null /\ Len(events[ws]) > 0 /\ events[ws][1] = "close"

\* C11: when a connection closes before it ever opened, every caller that awaited
\* the attempt is failed with a connection error: once the close event has been
\* handled none is left waiting.
C11_CloseFailsWaiters ==
    \A c \in Callers :
        (call[c].awaits # Null /\ ClosedBeforeOpen(promise[call[c].awaits].sock)) =>
            /\ promise[call[c].awaits].state = "rejected"
            /\ MicrotasksDrained => call[c].pc = "failed"

\* The manager holds no reference to a connection that failed before opening or
\* has closed, and no future of one: a held socket is connecting, open or closing,
\* and a held future is the pending future of the held, connecting socket
HoldsNothingDead(sock, cp, rs, ev, pr) ==
    /\ sock # Null =>
          /\ rs[sock] \in {"CONNECTING", "OPEN", "CLOSING"}
          /\ ~(Len(ev[sock]) > 0 /\ ev[sock][1] = "error")
    /\ cp # Null =>
          /\ pr[cp].state = "pending"
          /\ pr[cp].sock = sock
          /\ rs[sock] = "CONNECTING"

\* On ws an event was dispatched in this step that ends the connection: an error
\* while connecting, or a close
Terminates(ws) ==
    /\ events'[ws] # events[ws]
    /\ \/ events'[ws][Len(events'[ws])] = "close"
       \/ events'[ws][Len(events'[ws])] = "error" /\ readyState[ws] = "CONNECTING"

\* C12: after a connection attempt has failed, or an established connection has
\* closed, the manager holds neither a connection reference nor an in-progress
\* future, and the next call starts exactly one fresh connection attempt.
C12_FreshAttempt ==
    [][ /\ \A ws \in SocketIds :
              (Terminates(ws) /\ socket = ws) => socket' = Null /\ connectionPromise' = Null
        /\ HoldsNothingDead(socket', connectionPromise', readyState', events', promise')
        /\ \A c \in Callers :
              (call[c].pc = "idle" /\ call'[c].pc # "idle" /\ socket = Null) =>
                 /\ nSockets' = nSockets + 1
                 /\ socket' = nSockets'
                 /\ readyState'[socket'] = "CONNECTING"
                 /\ connectionPromise' # Null
                 /\ promise[connectionPromise'].state = "none"
                 /\ call'[c].awaits = connectionPromise'
      ]_vars

\* C12 witness: the first connection was established and has closed, and the next
\* call is waiting on a fresh attempt, the second socket ever created
C12_Witness ==
    \E c \in Callers :
        /\ events[1] = <<"open", "close">>
        /\ socket = 2
        /\ nSockets = 2
        /\ readyState[2] = "CONNECTING"
        /\ connectionPromise # Null
        /\ call[c].pc = "awaiting"
        /\ call[c].awaits = connectionPromise

\* C13: a PendingCall never outlives its connection: once the connection a request
\* was sent on has closed, the pending table holds no entry for that request.
C13_NoPendingAfterTeardown ==
    \A k \in DOMAIN pending : readyState[call[pending[k]].ws] # "CLOSED"

\* Instance i is the one the registry holds under its name
Registered(i, rw) == inst[i].name \in DOMAIN rw /\ rw[inst[i].name] = i

\* C14: a worker with autoRestart=true and maxRestarts=N>0 whose handler fails on
\* every run has its handler invoked exactly N+1 times in total before the run
\* loop gives up.
C14_RestartBound ==
    \A i \in InstanceIds :
        (/\ inst[i].exit = "gaveUp"
         /\ inst[i].autoRestart
         /\ inst[i].maxRestarts > 0
         /\ inst[i].runs = inst[i].ctxCalls) =>
            inst[i].runs = inst[i].maxRestarts + 1

C16_EndedIsAbsent ==
    \A i \in InstanceIds :
        inst[i].exit \in {"gaveUp", "returned"} =>
            /\ i \notin GetWorkerStatus
            /\ GetWorkerById(inst[i].name) # i

\* C17: the registry holds at most one instance per worker id, and starting a
\* worker whose id is in the registry returns the existing instance and changes
\* nothing: no new instance, no run attempt, no change of any instance.
C17_StartIsIdempotent ==
    /\ \A n \in DOMAIN runningWorkers : inst[runningWorkers[n]].name = n
    /\ \A def \in WorkerDefs, k \in RunKinds :
          def.name \in DOMAIN runningWorkers =>
              StartWorkerOp(def, k, WorkerState) =
                  [inst |-> inst, rw |-> runningWorkers, n |-> nInst,
                   value |-> runningWorkers[def.name]]
    /\ ret.op = "start" => /\ ret.name \in DOMAIN runningWorkers
                           /\ ret.value = runningWorkers[ret.name]

\* C17 witness: startWorker was just called for a worker that was already on its
\* second run, and returned that instance; no other instance exists
C17_Witness ==
    /\ ret.op = "start"
    /\ nInst = 1
    /\ inst[1].ctxCalls = 2
    /\ inst[1].pc = "handler"
    /\ ret.value = 1

\* C18: once an instance has been stopped explicitly, its handler is not invoked
\* again, a handler mid-execution only runs to its end, after which the loop has
\* exited, and the status stays Stopped, whatever autoRestart and the budget are.
C18_StopIsFinal ==
    [][ \A i \in InstanceIds :
            /\ (~inst[i].aborted /\ inst'[i].aborted) => inst'[i].status = "stopped"
            /\ inst[i].aborted =>
                  /\ inst'[i].aborted
                  /\ inst'[i].status = "stopped"
                  /\ inst'[i].runs = inst[i].runs
                  /\ inst'[i].ctxCalls = inst[i].ctxCalls
                  /\ inst'[i].pc \in {inst[i].pc, "exited"}
      ]_vars

\* C18 witness: a worker that restarts without limit was stopped while its handler
\* was running on a second attempt; the handler ended and the loop exited
C18_Witness ==
    \E i \in InstanceIds :
        /\ inst[i].aborted
        /\ inst[i].exit = "aborted"
        /\ inst[i].autoRestart
        /\ inst[i].maxRestarts = 0
        /\ inst[i].runs = 2
        /\ inst[i].status = "stopped"

\* C19: stopping a worker id that is not in the registry returns "not found" and
\* changes no supervisor state, and doing it again gives the same.
C19_StopIsIdempotent ==
    /\ \A n \in WorkerNames :
          n \notin DOMAIN runningWorkers =>
              LET r == StopWorkerOp(n, WorkerState)
              IN /\ r = [inst |-> inst, rw |-> runningWorkers, value |-> FALSE]
                 /\ StopWorkerOp(n, [inst |-> r.inst, rw |-> r.rw]) = r
    /\ ret.op = "stop" => ret.name \notin DOMAIN runningWorkers

\* C19 witness: stopWorker was just called for a worker that had been started and
\* had left the registry, and returned "not found"
C19_Witness ==
    /\ ret.op = "stop"
    /\ ret.value = FALSE
    /\ ret.name \in StartedNames
    /\ ret.name \notin DOMAIN runningWorkers

\* C20: when a handler returns normally and no stop was requested, the instance is
\* Stopped and out of the registry, and its handler is not run again, even with
\* autoRestart.
C20_NormalReturnEnds ==
    [][ \A i \in InstanceIds :
            inst'[i].exit = "returned" =>
                /\ inst'[i].status = "stopped"
                /\ inst'[i].pc = "exited"
                /\ ~Registered(i, runningWorkers')
                /\ inst[i].exit = "returned" =>
                      /\ inst'[i].runs = inst[i].runs
                      /\ inst'[i].ctxCalls = inst[i].ctxCalls
      ]_vars

\* C20 witness: the handler of a worker with autoRestart returned normally on its
\* first run, and the name is free again
C20_Witness ==
    \E i \in InstanceIds :
        /\ inst[i].exit = "returned"
        /\ inst[i].autoRestart
        /\ inst[i].runs = 1
        /\ ~inst[i].aborted
        /\ inst[i].name \notin DOMAIN runningWorkers

\* C21: with autoRestart=true and maxRestarts=0 a worker whose handler keeps
\* failing is restarted after every crash: unless it is explicitly stopped, its
\* run loop never ends and it never leaves the registry.
C21_UnlimitedRestarts ==
    \A i \in InstanceIds :
        (/\ inst[i].pc # "none"
         /\ inst[i].autoRestart
         /\ inst[i].maxRestarts = 0
         /\ ~inst[i].aborted
         /\ inst[i].exit # "returned") =>
            /\ inst[i].exit = "none"
            /\ Registered(i, runningWorkers)

\* C22: the status queries return a copy of instance state: no write a caller
\* makes through a returned value, and no operation it reaches through one,
\* changes the supervisor's instance or the registry.
C22_QueriesReturnCopies ==
    [][ ret'.op \in {"write", "stopReturned"} =>
            inst' = inst /\ runningWorkers' = runningWorkers ]_vars

\* C23: a worker failure never propagates out of the supervisor: whatever the
\* handler or the context factory throws, on any run attempt, startWorker returns
\* an instance and the promise of the run loop is never rejected.
C23_FailureAbsorbed ==
    /\ \A i \in InstanceIds : inst[i].exit # "rejected"
    /\ ret.op = "start" => ret.value \in InstanceIds

\* C24: an inbound response whose id is not in the pending table is discarded
\* silently: the pending table is unchanged and no caller is settled; and each
\* caller is settled at most once.
C24_UnknownIdDiscarded ==
    /\ \A m \in Messages :
          m.id \notin DOMAIN pending =>
              Deliver(m) = [pending |-> pending, call |-> call]
    /\ \A i, j \in DOMAIN settleSeq : settleSeq[i] = settleSeq[j] => i = j

\* C24 witness: a caller was settled by its response and its id has left the table,
\* so a duplicate of that response is unknown, while another call still waits
C24_Witness ==
    \E c, d \in Callers :
        /\ call[c].pc = "resolved"
        /\ InSeq(c, settleSeq)
        /\ call[c].id \notin DOMAIN pending
        /\ call[d].pc = "pending"
        /\ call[d].id \in DOMAIN pending

\* C25: the close of a connection leaves the PendingCalls of the requests sent on
\* it unresolved: a caller is resolved or failed only by the delivery of a
\* response with its id, never by the close event.
C25_CloseLeavesPending ==
    \A c \in Callers :
        call[c].pc \in {"resolved", "rejected"} <=> InSeq(c, settleSeq)

\* C25 witness: the connection a request was sent on has closed, and the caller
\* still waits with its entry in the table
C25_Witness ==
    \E c \in Callers :
        /\ call[c].pc = "pending"
        /\ readyState[call[c].ws] = "CLOSED"
        /\ call[c].id \in DOMAIN pending
        /\ pending[call[c].id] = c

\* C26: the PendingCall of a call is in the table when its frame is handed to the
\* transport, so a response delivered after the send finds the entry: a caller
\* that waits for its response has had its frame sent and has its entry in the
\* table, unless uuid() gave another call the same id (that call then took the key
\* over).
C26_RegisteredBeforeSend ==
    \A c \in Callers :
        call[c].pc = "pending" =>
            /\ InSeq(c, sendSeq)
            /\ \/ call[c].id \in DOMAIN pending /\ pending[call[c].id] = c
               \/ \E d \in Callers : d # c /\ call[d].id = call[c].id

\* C26 witness: two frames have been handed to the transport and both callers
\* wait, each with its own entry in the table
C26_Witness ==
    /\ Len(sendSeq) = 2
    /\ \A c \in Callers :
          /\ call[c].pc = "pending"
          /\ call[c].id \in DOMAIN pending
          /\ pending[call[c].id] = c

\* C27: whatever encoding is advertised and whatever the kind of the frame, a frame
\* that parses in one of the two formats is decoded: when the advertised format
\* does not parse, the other one is attempted before a decode error surfaces.
C27_DefensiveDecoding ==
    \A f \in Frames : (MsgpackDecodes(f) \/ JsonParses(f)) => DecodeFrame(f)

\* C28: an undecodable inbound frame is dropped by the dispatcher: no response is
\* sent, no interceptor or handler is invoked, and the registry is unchanged.
C28_UndecodableDropped ==
    [][ \A r \in Reqs :
            (rq[r].pc = "idle" /\ rq'[r].pc # "idle" /\ rq'[r].frame.json = "invalid") =>
                /\ rq'[r] = [IdleReq EXCEPT !.frame = rq'[r].frame, !.pc = "done",
                                            !.completion = "fulfilled"]
                /\ sent' = sent
                /\ sent[r] = << >>
                /\ methods' = methods
                /\ middleware' = middleware
      ]_vars

\* C28 witness: with a method registered and an interceptor installed, a frame that
\* is not JSON arrived and its invocation ended with nothing sent
C28_Witness ==
    \E r \in Reqs :
        /\ rq[r].pc = "done"
        /\ rq[r].frame.json = "invalid"
        /\ sent[r] = << >>
        /\ "getTasks" \in DOMAIN methods
        /\ middleware = "pass"

\* C29: the handler of a request receives the very context object given to that
\* request's interceptor, with what the interceptor wrote into it, and no context
\* object is given to the interceptor or handler of two different requests.
C29_ContextPerRequest ==
    /\ \A r \in Reqs :
          (rq[r].handlerCtx # Null /\ rq[r].mwCtx # Null) =>
              /\ rq[r].handlerCtx = rq[r].mwCtx
              /\ rq[r].handlerSaw = rq[r].ctxUser
    /\ \A r, q \in Reqs :
          r # q =>
              {rq[r].mwCtx, rq[r].handlerCtx} \cap {rq[q].mwCtx, rq[q].handlerCtx} \subseteq {Null}

\* C29 witness: two requests are in progress at once, each with an interceptor
\* that wrote into the context and a handler that is still running
C29_Witness ==
    /\ rq[1].hs = "running" /\ rq[2].hs = "running"
    /\ rq[1].mwCtx # Null /\ rq[2].mwCtx # Null
    /\ rq[1].handlerSaw = "user" /\ rq[2].handlerSaw = "user"

\* C30: a request whose processing starts is passed to the interceptor installed
\* most recently, never to an earlier one, and to none when none is installed; the
\* interceptor of a request does not change afterwards.
C30_OneInterceptor ==
    [][ \A r \in Reqs :
            /\ (rq[r].pc = "idle" /\ rq'[r].pc # "idle") =>
                  /\ rq'[r].mw \in {"none", middleware}
                  /\ rq'[r].pc \in {"awaitMw", "awaitHandler"} => rq'[r].mw = middleware
            /\ rq[r].pc # "idle" => rq'[r].mw = rq[r].mw
      ]_vars

\* C30 witness: a request was passed to one interceptor, another interceptor was
\* installed, and the next request was passed to that one
C30_Witness ==
    /\ rq[1].mw = "block"
    /\ rq[2].mw = "pass"
    /\ middleware = "pass"

\* C31: restartCount counts restart attempts: it equals the number of restarts
\* attempted so far for the instance, so it is one less than the number of run
\* attempts when the loop gives up after a crash (0 for a worker that crashes once
\* and is not restarted), and equal to the number of run attempts while a restart
\* is pending.
C31_RestartCountCountsRestarts ==
    \A i \in InstanceIds :
        /\ inst[i].exit = "gaveUp" => inst[i].restartCount = inst[i].ctxCalls - 1
        /\ (inst[i].pc = "delay" /\ ~inst[i].aborted) => inst[i].restartCount = inst[i].ctxCalls

\* C32: no delay precedes the first run, which begins within startWorker before it
\* returns; every later run attempt begins from the restart delay, and an instance
\* in its restart delay that was not stopped is Restarting.
C32_DelayBeforeEveryRestart ==
    [][ \A i \in InstanceIds :
            /\ (inst[i].pc = "none" /\ inst'[i].pc # "none") =>
                  /\ ret'.op = "start"
                  /\ ret'.value = i
                  /\ inst'[i].ctxCalls = 1
            /\ (inst[i].pc # "none" /\ inst'[i].ctxCalls # inst[i].ctxCalls) =>
                  /\ inst[i].pc = "delay"
                  /\ inst[i].status = "restarting"
                  /\ inst'[i].ctxCalls = inst[i].ctxCalls + 1
            /\ (inst'[i].pc = "delay" /\ ~inst'[i].aborted) => inst'[i].status = "restarting"
            /\ inst'[i].runs # inst[i].runs => inst'[i].ctxCalls # inst[i].ctxCalls
      ]_vars

\* C32 witness: the handler of a worker runs for the second time, after one crash
\* and one restart delay
C32_Witness ==
    \E i \in InstanceIds :
        /\ inst[i].pc = "handler"
        /\ inst[i].runs = 2
        /\ inst[i].restartCount = 1
        /\ inst[i].status = "running"

\* C33: stopAllWorkers sets the abort signal of every worker in the registry,
\* marks each Stopped and leaves the registry empty, without waiting for a handler
\* that is still executing (the run loops stay where they are); and a worker whose
\* signal is set begins no run attempt afterwards.
C33_BulkStop ==
    [][ /\ ret'.op = "stopAll" =>
              /\ runningWorkers' = << >>
              /\ \A i \in InstanceIds :
                    IF Registered(i, runningWorkers)
                    THEN inst'[i] = [inst[i] EXCEPT !.aborted = TRUE, !.status = "stopped"]
                    ELSE inst'[i] = inst[i]
        /\ \A i \in InstanceIds :
              inst[i].aborted =>
                  /\ inst'[i].ctxCalls = inst[i].ctxCalls
                  /\ inst'[i].runs = inst[i].runs
      ]_vars

\* C33 witness: stopAllWorkers has just returned with the registry empty while the
\* handler of one worker is still executing and another worker is in its restart
\* delay, both with their signal set
C33_Witness ==
    /\ ret.op = "stopAll"
    /\ runningWorkers = << >>
    /\ inst[1].pc = "handler" /\ inst[1].aborted /\ inst[1].status = "stopped"
    /\ inst[2].pc = "delay" /\ inst[2].aborted /\ inst[2].status = "stopped"
    /\ inst[1].name # inst[2].name

\* C34: at most one handler invocation per worker id is executing at any time,
\* also when a worker is stopped while its handler is mid-execution and a worker
\* with the same id is started again before that handler finishes.
C34_OneHandlerPerId ==
    \A i, j \in InstanceIds :
        (i # j /\ inst[i].pc = "handler" /\ inst[j].pc = "handler") =>
            inst[i].name # inst[j].name

\* C35: stop() of an instance handle affects only that instance: every run loop
\* that is active and not cancelled stays in the registry.
C35_StopAffectsOwnInstance ==
    \A i \in InstanceIds :
        (inst[i].pc \in {"handler", "delay"} /\ ~inst[i].aborted) =>
            Registered(i, runningWorkers)

\* C36: every entry of the registry belongs to a run loop that has not
\* terminated, also after a first run that failed synchronously without a restart.
C36_NoDeadEntry ==
    \A n \in DOMAIN runningWorkers : inst[runningWorkers[n]].pc \in {"handler", "delay"}

\* C37: between events the connection manager's state is consistent: an
\* in-progress connection future exists if and only if the held connection is
\* connecting, an open held connection has no in-progress future, and at most one
\* connection is connecting at any time.
C37_ManagerConsistent ==
    /\ connectionPromise # Null <=> (socket # Null /\ readyState[socket] = "CONNECTING")
    /\ (socket # Null /\ readyState[socket] = "OPEN") => connectionPromise = Null
    /\ \A v, w \in SocketIds :
          (readyState[v] = "CONNECTING" /\ readyState[w] = "CONNECTING") => v = w

\* C37 witness: the second connection is open and held with no future in progress,
\* after the first one has closed
C37_Witness ==
    /\ socket = 2
    /\ readyState[2] = "OPEN"
    /\ readyState[1] = "CLOSED"
    /\ connectionPromise = Null

\* What the close event of ws would leave of the manager's state now: ws.onclose,
\* then the close listeners still attached to ws
AfterClose(ws) == RunListeners("close", ws, listeners[ws], OnClose(ws, ConnState))

\* C38: a close event from a connection that is not the held connection leaves
\* the held connection reference and the in-progress future unchanged.
C38_LateCloseIsHarmless ==
    \A ws \in SocketIds :
        (readyState[ws] \in {"CONNECTING", "OPEN", "CLOSING"} /\ socket # ws) =>
            /\ AfterClose(ws).socket = socket
            /\ AfterClose(ws).connectionPromise = connectionPromise

\* C38 witness: the first connection was replaced while it was closing; its close
\* event is still to come while the second connection is held and connecting
C38_Witness ==
    /\ events[1] = <<"open">>
    /\ readyState[1] = "CLOSING"
    /\ socket = 2
    /\ readyState[2] = "CONNECTING"
    /\ connectionPromise # Null
    /\ promise[connectionPromise].state = "pending"

\* C39: a call that fails locally leaves the pending table as it was before the
\* call: when encoding or sending throws, the entry just registered is removed and
\* the caller is failed with that error (the table is as before unless uuid() had
\* returned an id that was in the table); when the connection attempt fails, no id
\* is drawn and nothing is ever registered for the call.
C39_LocalFailureLeavesTable ==
    [][ \A c \in Callers :
            (call[c].pc # "failed" /\ call'[c].pc = "failed") =>
                /\ call'[c].outcome.kind \in {"sendError", "connError"}
                /\ \A k \in DOMAIN pending' : pending'[k] # c
                /\ call'[c].outcome.kind = "sendError" =>
                      /\ call'[c].id # Null
                      /\ call'[c].id \notin DOMAIN pending'
                      /\ call'[c].id \notin DOMAIN pending => pending' = pending
                /\ call'[c].outcome.kind = "connError" =>
                      /\ call'[c].id = Null
                      /\ pending' = pending
      ]_vars

\* C39 witness: one call waits for its response and the next one has failed in the
\* send; the table holds the entry of the first call only
C39_Witness ==
    /\ call[1].pc = "pending"
    /\ call[2].pc = "failed"
    /\ call[2].outcome.kind = "sendError"
    /\ call[2].id # call[1].id
    /\ DOMAIN pending = {call[1].id}

\* C40: after the cleanup of the TTL effect of useFetch (unmount, or a change of
\* key, args, ttl or enabled) no further TTL refetch is scheduled for the old run,
\* also when the cleanup happens while a TTL refetch request is in flight.
C40_NoRefetchAfterCleanup ==
    \A e \in EffectIds : fx[e].state = "cleaned" => fx[e].timer # "armed"

====
